---- MODULE Spec2Model ----
(***************************************************************************)
(* Model of guppy-gpu: the bit codec pack_int / unpack_int of              *)
(* guppy_gpu/cudaq_qec.py (and its copy in guppy_gpu/api.py), the Decoder  *)
(* calls the codec feeds, and the signature validation of GPU function     *)
(* declarations in guppy_gpu/definition.py.                                *)
(*                                                                         *)
(* A Guppy `int` is a 64-bit machine word.  A word is modelled by its bit  *)
(* pattern: the set of the positions in 0..WordBits-1 whose bit is one, so *)
(* that shifts drop the bits that leave the word.                          *)
(***************************************************************************)
EXTENDS Integers, Sequences, FiniteSets, TLC

VARIABLES
    pc,        \* position of the codec program
    mode,      \* "send": pack, enqueue, unpack; "recv": get, unpack, pack
    N,         \* the comptime size argument
    bitsIn,    \* send: the syndrome bit array the caller starts from
    wordIn,    \* recv: the word the decoder returns from get_corrections
    data,      \* pack_int: the array argument (owned by the call)
    arr,       \* the caller's current bool array
    word,      \* the caller's current packed word
    acc,       \* pack_int: the accumulator
    i,         \* pack_int: number of array elements consumed by the loop
    wire,      \* the arguments handed to enqueue_syndromes
    fun_ty,    \* sanitise_type: the signature under validation
    outcome,   \* sanitise_type: what the call did (returned or raised)
    parses     \* RawGpuFunctionDef.parse: outcome of every parse so far

vars == <<pc, mode, N, bitsIn, wordIn, data, arr, word, acc, i, wire,
          fun_ty, outcome, parses>>

codecVars == <<pc, mode, N, bitsIn, wordIn, data, arr, word, acc, i, wire>>
sigVars == <<fun_ty, outcome, parses>>

-----------------------------------------------------------------------------
(* Program constants and bounds *)

\* width of a Guppy int (bit-packed uint64)
WordBits == 64

\* the largest array size pack_int accepts
MaxSize == 64

\* input arrays and words have their ones among the first EdgeBits and the
\* last EdgeBits positions (and one position in the middle)
EdgeBits == 2

\* longest parameter list of a signature handed to sanitise_type
MaxParams == 3

\* number of declarations parsed in a run, and their longest parameter list
MaxDecls == 2
MaxDeclParams == 1

BitPos == 0 .. (WordBits - 1)
Sizes == 0 .. (MaxSize + 1)

-----------------------------------------------------------------------------
(* 64-bit words *)

Zero == {}

\* int(b)
IntOfBool(b) == IF b THEN {0} ELSE {}

One == IntOfBool(TRUE)

\* bool(x): x is not zero
BoolOfInt(x) == x # {}

\* x << s: the bits that leave the word are dropped
Shl(x, s) == {k \in BitPos : k >= s /\ (k - s) \in x}

\* x >> s: the vacated high bits are `fill` (0 for a logical shift, the sign
\* for an arithmetic one, and whatever the target yields for s >= WordBits)
Shr(x, s, fill) ==
    {k \in BitPos : IF k + s < WordBits THEN (k + s) \in x ELSE fill = 1}

BitOr(x, y) == x \cup y

BitAnd(x, y) == x \cap y

-----------------------------------------------------------------------------
(* pack_int and unpack_int *)

pack_step_noshift(a, b) == BitOr(a, IntOfBool(b))

pack_step_or_then_shift(a, b) == Shl(BitOr(a, IntOfBool(b)), 1)

\* one iteration of pack_int's loop: acc = acc << 1; acc = acc | int(b)
pack_step(a, b) == BitOr(Shl(a, 1), IntOfBool(b))

unpack_int_little_endian(d, n, fill) ==
    [m \in 1 .. n |-> BoolOfInt(BitAnd(One, Shr(d, m - 1, fill)))]

\* array(bool(1 & (data >> (N - n - 1))) for n in range(N)); the array is
\* 1-indexed here, element m is the code's index n = m - 1
unpack_int(d, n, fill) ==
    [m \in 1 .. n |-> BoolOfInt(BitAnd(One, Shr(d, n - (m - 1) - 1, fill)))]

-----------------------------------------------------------------------------
(* Inputs of the codec program *)

\* positions (0-based) among 0..n-1 where an input may have a one
EdgePos(n) ==
    {k \in 0 .. (n - 1) : k < EdgeBits \/ k >= n - EdgeBits \/ k = n \div 2}

\* bool arrays of length n
Arrays(n) ==
    {[m \in 1 .. n |-> (m - 1) \in S] : S \in SUBSET EdgePos(n)}

\* words handed to unpack_int with size n: ones at the low end, around
\* position n (the last used bit and the first unused one), and at the top
\* of the word
WordPos(n) ==
    {k \in BitPos : k < EdgeBits \/ k = n - 1 \/ k = n \/ k = WordBits - 1}

Words(n) == SUBSET WordPos(n)

NoWire == [syndrome_size |-> -1, syndrome |-> Zero]

-----------------------------------------------------------------------------
(* The codec program: a caller that sends a syndrome (pack_int, then       *)
(* enqueue_syndromes, then unpack_int of the word it sent) or receives     *)
(* corrections (get_corrections, then unpack_int, then pack_int of the     *)
(* array it got).                                                          *)

CodecIdle ==
    /\ pc = "off" /\ mode = "off" /\ N = 0
    /\ bitsIn = <<>> /\ wordIn = Zero /\ data = <<>> /\ arr = <<>>
    /\ word = Zero /\ acc = Zero /\ i = 0 /\ wire = NoWire

InitCodec ==
    /\ N \in Sizes
    /\ mode \in {"send", "recv"}
    /\ bitsIn \in (IF mode = "send" THEN Arrays(N) ELSE {<<>>})
    /\ wordIn \in (IF mode = "recv" THEN Words(N) ELSE {Zero})
    /\ pc = IF mode = "send" THEN "pack_call" ELSE "get_corrections"
    /\ arr = bitsIn
    /\ data = <<>>
    /\ word = Zero
    /\ acc = Zero
    /\ i = 0
    /\ wire = NoWire

\* pack_int is entered with size N and the caller's array, which it owns from
\* here on; N > 64 panics before the accumulator is set up
PackEnter ==
    /\ pc = "pack_call"
    /\ data' = arr
    /\ IF N > MaxSize
          THEN /\ pc' = "panic"
               /\ UNCHANGED <<acc, i>>
          ELSE /\ pc' = "pack_loop"
               /\ acc' = Zero
               /\ i' = 0
    /\ UNCHANGED <<mode, N, bitsIn, wordIn, arr, word, wire>>
    /\ UNCHANGED sigVars

\* for b in data: acc = acc << 1; acc = acc | int(b)
PackLoop ==
    /\ pc = "pack_loop"
    /\ i < Len(data)
    /\ acc' = pack_step(acc, data[i + 1])
    /\ i' = i + 1
    /\ UNCHANGED <<pc, mode, N, bitsIn, wordIn, data, arr, word, wire>>
    /\ UNCHANGED sigVars

\* return acc
PackReturn ==
    /\ pc = "pack_loop"
    /\ i = Len(data)
    /\ word' = acc
    /\ pc' = IF mode = "send" THEN "enqueue" ELSE "done"
    /\ UNCHANGED <<mode, N, bitsIn, wordIn, data, arr, acc, i, wire>>
    /\ UNCHANGED sigVars

\* Decoder.enqueue_syndromes(decoder_id, syndrome_size, syndrome, tag) with
\* the packed word as the syndrome
EnqueueSyndromes ==
    /\ pc = "enqueue"
    /\ wire' = [syndrome_size |-> N, syndrome |-> word]
    /\ pc' = "unpack_call"
    /\ UNCHANGED <<mode, N, bitsIn, wordIn, data, arr, word, acc, i>>
    /\ UNCHANGED sigVars

\* Decoder.get_corrections(decoder_id, return_size, reset) returns a word
GetCorrections ==
    /\ pc = "get_corrections"
    /\ word' = wordIn
    /\ pc' = "unpack_call"
    /\ UNCHANGED <<mode, N, bitsIn, wordIn, data, arr, acc, i, wire>>
    /\ UNCHANGED sigVars

\* unpack_int(word, N): no size check, one comprehension
UnpackInt ==
    /\ pc = "unpack_call"
    /\ \E fill \in {0, 1} : arr' = unpack_int(word, N, fill)
    /\ pc' = IF mode = "send" THEN "done" ELSE "pack_call"
    /\ UNCHANGED <<mode, N, bitsIn, wordIn, data, word, acc, i, wire>>
    /\ UNCHANGED sigVars

-----------------------------------------------------------------------------
(* Types, flags and signatures (guppylang's Type, InputFlags, FuncInput,   *)
(* FunctionType, as far as definition.py tells them apart)                 *)

NumericTy == [cls |-> "NumericType", defn |-> "-"]
NoneTy == [cls |-> "NoneType", defn |-> "-"]
StructTy == [cls |-> "StructType", defn |-> "-"]
GpuModuleTy == [cls |-> "OpaqueType", defn |-> "GpuModuleTypeDef"]
OtherOpaqueTy == [cls |-> "OpaqueType", defn |-> "OpaqueTypeDef"]

Types == {NumericTy, NoneTy, StructTy, GpuModuleTy, OtherOpaqueTy}

InputFlags == {"NoFlags", "Inout", "Owned"}

FuncInputs == [ty : Types, flags : InputFlags]

SeqsUpTo(S, n) == UNION {[1 .. k -> S] : k \in 0 .. n}

\* FunctionType(inputs, output) with at most n inputs
FunctionTypes(n) == [inputs : SeqsUpTo(FuncInputs, n), output : Types]

\* the module's file and config, as the Decoder of cudaq_qec.py declares them
NoInfo == "None"
ModuleInfo == <<"cudaq-qec", "None">>

\* what a call did: it returned, or it raised `exc` (a GuppyError carries the
\* error `err` and the offending type `ty`)
NoTy == [cls |-> "-", defn |-> "-"]
NotCalled == [exc |-> "off", err |-> "-", ty |-> NoTy]
Pending == [exc |-> "pending", err |-> "-", ty |-> NoTy]
Returned == [exc |-> "-", err |-> "-", ty |-> NoTy]
GuppyError(e, t) == [exc |-> "GuppyError", err |-> e, ty |-> t]
IndexError == [exc |-> "IndexError", err |-> "-", ty |-> NoTy]

-----------------------------------------------------------------------------
(* definition.py *)

gpu_module_info_any_opaque(ty) ==
    IF ty.cls = "OpaqueType" THEN ModuleInfo ELSE NoInfo

\* the (gpu_file, gpu_config) of a GPU module type, None for any other type
gpu_module_info(ty) ==
    IF ty.cls = "OpaqueType" /\ ty.defn = "GpuModuleTypeDef"
        THEN ModuleInfo
        ELSE NoInfo

\* RawGpuFunctionDef.is_valid_gpu_type
is_valid_gpu_type(ty) == ty.cls = "NumericType"

first_input_ok_owned(inp) ==
    inp.flags = "Owned" /\ gpu_module_info(inp.ty) # NoInfo

\* the first case of the match on fun_ty.inputs[0]
first_input_ok(inp) ==
    inp.flags = "Inout" /\ gpu_module_info(inp.ty) # NoInfo

invalid_input_last(inputs) ==
    LET bad == {k \in 2 .. Len(inputs) : ~is_valid_gpu_type(inputs[k].ty)}
    IN  IF bad = {} THEN 0 ELSE CHOOSE k \in bad : \A j \in bad : j <= k

\* the loop over fun_ty.inputs[1:]: the position (1-based) of the input it
\* raises on, 0 when it raises on none
invalid_input(inputs) ==
    LET bad == {k \in 2 .. Len(inputs) : ~is_valid_gpu_type(inputs[k].ty)}
    IN  IF bad = {} THEN 0 ELSE CHOOSE k \in bad : \A j \in bad : k <= j

\* RawGpuFunctionDef.sanitise_type(loc, fun_ty)
sanitise_type(ft) ==
    IF Len(ft.inputs) = 0
        THEN IndexError
    ELSE IF ~first_input_ok(ft.inputs[1])
        THEN GuppyError("FirstArgNotModule", ft.inputs[1].ty)
    ELSE IF invalid_input(ft.inputs) # 0
        THEN GuppyError("UnconvertibleType", ft.inputs[invalid_input(ft.inputs)].ty)
    ELSE IF ~is_valid_gpu_type(ft.output) /\ ft.output.cls # "NoneType"
        THEN GuppyError("UnconvertibleType", ft.output)
    ELSE Returned

NoDef == [inputs |-> <<>>, output |-> NoTy]

parse_without_validation(ft) ==
    [raised |-> sanitise_type(ft), returned |-> ft]

\* RawGpuFunctionDef.parse: the parsed definition (here its type) is returned
\* only when sanitise_type returns
parse(ft) ==
    LET r == sanitise_type(ft)
    IN  [raised |-> r, returned |-> IF r = Returned THEN ft ELSE NoDef]

-----------------------------------------------------------------------------
(* Validation of one signature *)

NoSig == [inputs |-> <<>>, output |-> NoTy]

SigIdle == fun_ty = NoSig /\ outcome = NotCalled /\ parses = <<>>

InitSig ==
    /\ fun_ty \in FunctionTypes(MaxParams)
    /\ outcome = Pending
    /\ parses = <<>>

SanitiseType ==
    /\ outcome = Pending
    /\ outcome' = sanitise_type(fun_ty)
    /\ UNCHANGED <<fun_ty, parses>>
    /\ UNCHANGED codecVars

-----------------------------------------------------------------------------
(* A run of the compiler parsing declarations one after the other *)

Parse ==
    /\ Len(parses) < MaxDecls
    /\ \E ft \in FunctionTypes(MaxDeclParams) : parses' = Append(parses, parse(ft))
    /\ UNCHANGED <<fun_ty, outcome>>
    /\ UNCHANGED codecVars

-----------------------------------------------------------------------------
(* Specifications *)

Init == InitCodec /\ SigIdle

Next ==
    \/ PackEnter
    \/ PackLoop
    \/ PackReturn
    \/ EnqueueSyndromes
    \/ GetCorrections
    \/ UnpackInt

\* the codec program
Spec == Init /\ [][Next]_vars

InitValidate == CodecIdle /\ InitSig

NextValidate == SanitiseType

\* sanitise_type on one signature
SpecValidate == InitValidate /\ [][NextValidate]_vars

InitParse == CodecIdle /\ SigIdle

NextParse == Parse

\* a sequence of parses
SpecParse == InitParse /\ [][NextParse]_vars

-----------------------------------------------------------------------------
(* Claims about the codec, checked under Spec *)

\* pack_int has returned to the caller (its result is in word, its argument
\* still in data)
PackReturned ==
    \/ mode = "send" /\ pc \in {"enqueue", "unpack_call", "done"}
    \/ mode = "recv" /\ pc = "done"

\* unpack_int has returned to the caller
UnpackReturned ==
    \/ mode = "send" /\ pc = "done"
    \/ mode = "recv" /\ pc \in {"pack_call", "pack_loop", "panic", "done"}

\* (1 << n) - 1 as a bit pattern
LowMask(n) == {k \in BitPos : k < n}

\* the value of the low 31 bits of a word
RECURSIVE LowValue(_, _)
LowValue(w, k) ==
    IF k < 0 THEN 0
    ELSE (IF k \in w THEN 2 ^ k ELSE 0) + LowValue(w, k - 1)

\* sum over i in 0..n-1 of bits[i] * 2^(n-1-i), the first m terms
RECURSIVE BigEndianSum(_, _, _)
BigEndianSum(bits, n, m) ==
    IF m = 0 THEN 0
    ELSE (IF bits[m] THEN 2 ^ (n - m) ELSE 0) + BigEndianSum(bits, n, m - 1)

\* C1: for every N in 1..64 and every bool array v of length N,
\* unpack_int(pack_int(N, v), N) has length N and equals v at every index.
RoundTripLaw ==
    (mode = "send" /\ pc = "done" /\ N >= 1 /\ N <= 64)
        => /\ Len(arr) = N
           /\ \A m \in 1 .. N : arr[m] = bitsIn[m]

RoundTripWitness ==
    /\ mode = "send" /\ pc = "done"
    /\ N = 64
    /\ bitsIn[1] = TRUE /\ bitsIn[2] = FALSE /\ bitsIn[64] = TRUE

\* C2: for every N in 1..64 and every word w, also one with bits set at or
\* above position N, unpack_int(w, N) returns an array of length N without
\* failing and pack_int(N, unpack_int(w, N)) equals w & ((1 << N) - 1).
MaskLaw ==
    /\ (mode = "recv" /\ UnpackReturned) => Len(arr) = N
    /\ (mode = "recv" /\ N >= 1 /\ N <= 64) => pc # "panic"
    /\ (mode = "recv" /\ pc = "done" /\ N >= 1 /\ N <= 64)
           => word = BitAnd(wordIn, LowMask(N))

MaskLawWitness ==
    /\ mode = "recv" /\ pc = "done"
    /\ N = 2
    /\ wordIn = {0, 1, 2, 63}
    /\ word = {0, 1}

\* C3: pack_int and unpack_int with N > 64 both fail with the size-limit
\* error before any bit is packed or unpacked and return nothing; with
\* N = 64 both succeed.
SizeCeiling ==
    /\ N > MaxSize => ~PackReturned /\ ~UnpackReturned
    /\ pc = "panic" => (N > MaxSize /\ acc = Zero /\ i = 0)

\* C4: for every N in 0..64 and every bool array bits of length N, pack_int
\* returns the word whose bit N-1-i is bits[i] for i in 0..N-1 and whose bits
\* at position N and above are clear: the unsigned integer
\* sum of bits[i] * 2^(N-1-i) (compared as a number where it fits TLC's
\* integers, N <= 30).
BigEndianMapping ==
    PackReturned =>
        /\ Len(data) = N
        /\ N <= 64
        /\ \A k \in BitPos :
              k \in word <=> (k < N /\ data[N - k])
        /\ N <= 30 => LowValue(word, 30) = BigEndianSum(data, N, N)

BigEndianWitness ==
    /\ PackReturned
    /\ N = 64
    /\ data[1] = TRUE /\ data[64] = FALSE
    /\ 63 \in word

\* C8: a syndrome packed with pack_int and handed to enqueue_syndromes has
\* its first bit (index 0) in the least significant bit of the word and its
\* last bit at position syndrome_size - 1; unpack_int of the result of
\* get_corrections puts return_value & 1 at array index 0.
WireBitOrder ==
    /\ wire # NoWire =>
          \A j \in 0 .. (wire.syndrome_size - 1) :
              j \in wire.syndrome <=> bitsIn[j + 1]
    /\ (mode = "recv" /\ UnpackReturned /\ N >= 1 /\ N <= 64) =>
          (arr[1] <=> 0 \in wordIn)

-----------------------------------------------------------------------------
(* Claims about sanitise_type, checked under SpecValidate *)

Validated == outcome # Pending /\ outcome # NotCalled

\* the first parameter is a GPU module handle carrying the in-out flag
FirstIsInoutModule(ft) ==
    /\ ft.inputs[1].ty = GpuModuleTy
    /\ ft.inputs[1].flags = "Inout"

NonNumericParams(ft) ==
    {k \in 2 .. Len(ft.inputs) : ft.inputs[k].ty # NumericTy}

\* C5: for every signature with at least one parameter, validation returns
\* without raising if and only if the first parameter is a GPU module handle
\* carrying the in-out flag, every later parameter is numeric, and the return
\* type is the none type or numeric.
AcceptanceCriterion ==
    (Validated /\ Len(fun_ty.inputs) >= 1) =>
        (outcome = Returned <=>
            /\ FirstIsInoutModule(fun_ty)
            /\ NonNumericParams(fun_ty) = {}
            /\ fun_ty.output \in {NoneTy, NumericTy})

AcceptanceWitness ==
    /\ outcome = Returned
    /\ Len(fun_ty.inputs) = 3
    /\ fun_ty.inputs[3].flags = "Owned"
    /\ fun_ty.output = NoneTy

\* (handle: Decoder, decoder_id: int, x: int) -> int with the handle passed
\* under `flags`
HandleIntIntSig(flags) ==
    [inputs |-> << [ty |-> GpuModuleTy, flags |-> flags],
                   [ty |-> NumericTy, flags |-> "NoFlags"],
                   [ty |-> NumericTy, flags |-> "NoFlags"] >>,
     output |-> NumericTy]

\* C6 as stated: the signature (handle: DeviceHandle [owned], decoder_id:
\* int, x: int) -> int validates successfully.
OwnedHandleAccepted ==
    (Validated /\ fun_ty = HandleIntIntSig("Owned")) => outcome = Returned

\* C6 amended: the signature validates successfully when the handle is passed
\* with the in-out flag; with the owned flag it is rejected with
\* FirstArgNotModule carrying the handle type.
InoutHandleAccepted ==
    /\ (Validated /\ fun_ty = HandleIntIntSig("Inout")) => outcome = Returned
    /\ (Validated /\ fun_ty = HandleIntIntSig("Owned")) =>
           outcome = GuppyError("FirstArgNotModule", GpuModuleTy)

InoutHandleWitness ==
    /\ Validated
    /\ fun_ty = HandleIntIntSig("Inout")

\* C7: validating a signature with no parameters raises a GuppyError carrying
\* FirstArgNotModule, and fails in no other way.
EmptySignatureRejected ==
    (Validated /\ Len(fun_ty.inputs) = 0) =>
        /\ outcome.exc = "GuppyError"
        /\ outcome.err = "FirstArgNotModule"

\* C10: for a signature with at least one parameter the error raised is that
\* of the first violated rule: FirstArgNotModule with the first parameter's
\* type when the first parameter is not an in-out module handle, whatever the
\* rest; otherwise UnconvertibleType with the type of the lowest-index
\* non-numeric later parameter; otherwise UnconvertibleType with the return
\* type when that is neither none nor numeric; otherwise no error.
ErrorPrecedence ==
    (Validated /\ Len(fun_ty.inputs) >= 1) =>
        IF ~FirstIsInoutModule(fun_ty)
            THEN outcome = GuppyError("FirstArgNotModule", fun_ty.inputs[1].ty)
        ELSE IF NonNumericParams(fun_ty) # {}
            THEN \E k \in NonNumericParams(fun_ty) :
                    /\ \A j \in NonNumericParams(fun_ty) : k <= j
                    /\ outcome = GuppyError("UnconvertibleType", fun_ty.inputs[k].ty)
        ELSE IF fun_ty.output \notin {NoneTy, NumericTy}
            THEN outcome = GuppyError("UnconvertibleType", fun_ty.output)
        ELSE outcome = Returned

ErrorPrecedenceWitness ==
    /\ Len(fun_ty.inputs) = 3
    /\ FirstIsInoutModule(fun_ty)
    /\ fun_ty.inputs[2].ty = NoneTy
    /\ fun_ty.inputs[3].ty = StructTy
    /\ fun_ty.output = OtherOpaqueTy
    /\ outcome = GuppyError("UnconvertibleType", NoneTy)

-----------------------------------------------------------------------------
(* Claim about parse, checked under SpecParse *)

\* C9: over any sequence of parses, a declaration yields a parsed definition
\* only if its signature passed validation in that parse (and that signature
\* then has an in-out module handle first), a parse whose validation raises
\* yields none, and a later parse, failed or not, leaves the outcome of every
\* earlier one as it was.
CallableOnlyIfValidated ==
    /\ [](\A k \in 1 .. Len(parses) :
            /\ parses[k].returned # NoDef =>
                  /\ parses[k].raised = Returned
                  /\ Len(parses[k].returned.inputs) >= 1
                  /\ FirstIsInoutModule(parses[k].returned)
            /\ parses[k].raised # Returned => parses[k].returned = NoDef)
    /\ [][\A k \in 1 .. Len(parses) :
            Len(parses') >= k /\ parses'[k] = parses[k]]_vars

CallableWitness ==
    /\ Len(parses) = 2
    /\ parses[1].raised = GuppyError("FirstArgNotModule", NumericTy)
    /\ parses[2].returned # NoDef

====
